---- MODULE Spec2Model ----
(***************************************************************************)
(* Sentiment review pipeline (nhahub/NHA-035): the Airflow DAG             *)
(* extract -> transform -> predict -> load -> alert, the transactional     *)
(* writer load_batch_to_db and the notifier check_and_send_alerts.         *)
(*                                                                         *)
(* Modelling decisions:                                                    *)
(*  - An entity key is the ASIN; one Title per ASIN, so the groupby on     *)
(*    (ASIN, Title) groups by ASIN.  A record whose Title is missing has   *)
(*    no group: pandas drops the rows with a NaN key from a groupby.       *)
(*  - Averages are exact rationals <<numerator, denominator>>; rounding of *)
(*    the SQL column type is outside the model.                            *)
(*  - load_batch_to_db writes notification(product_id, message,            *)
(*    num_negative, threshold, send_status); check_and_send_alerts reads   *)
(*    notifications(district_id, alert_message, num_neg_reviews,           *)
(*    threshold, send_status).  They are modelled as one table keyed by    *)
(*    the entity, the product and the district variant being the same      *)
(*    logic over a generic entity key.  The JOIN to the stats table keeps  *)
(*    every row: a notification is only written for an entity with stats.  *)
(*  - A new notification row gets send_status 'no', the column default.    *)
(*  - transform_task_py cleans column "review" and load_batch_to_db counts *)
(*    column "Review": they are modelled as one text column; a header      *)
(*    that lacks either name makes the task raise (TaskFail, Rollback).    *)
(*  - A failed task is retried by the scheduler (retries = 3); TaskFail    *)
(*    and Rollback are the failure that remains when the retries are used  *)
(*    up.                                                                  *)
(*  - The Arabic labels the writer counts are written in Latin letters:    *)
(*    "ijabi" (positive), "muhayid" (neutral), "salbi" (negative).         *)
(*                                                                         *)
(* Specifications:                                                         *)
(*  - Spec: the DAG, one run at a time.                                    *)
(*  - SpecConcurrent: DAG runs that overlap.                               *)
(*  - SpecWriter: the writer and the notifier called with any batches.     *)
(*  - SpecScenario: the writer and the notifier with threshold 4 and       *)
(*    batches of negative records; SpecScenarioFair adds progress.         *)
(*  - SpecRace: SpecScenario with a commit of another run falling between *)
(*    the notifier's selection and its UPDATE.                             *)
(***************************************************************************)
EXTENDS Integers, Sequences, FiniteSets, TLC

VARIABLES
    batch_size,              \* config["batch"]["batch_size"]
    alert_threshold,         \* config["alert_threshold"]
    sentiment_batch_number,  \* Airflow Variable: the cursor
    pc,                      \* position of the running task / function
    caller,                  \* "dag" or "direct": who runs the writer / notifier
    xcom,                    \* values pushed between the tasks of one DAG run
    load_args,               \* load_batch_to_db: df_in (as passed), df_batch (cleaned), batch_number, threshold
    product,                 \* committed table product
    reviews,                 \* committed table reviews (audit rows)
    notification,            \* committed table notification
    tx,                      \* the open transaction's view of the three tables
    alerts_to_send,          \* check_and_send_alerts: the filtered selection
    sent_ids,                \* check_and_send_alerts: sent_district_ids
    outcome,                 \* how the last run / call ended
    pre,                     \* history: cursor and tables when the run started
    committed,               \* history: batch numbers committed in this pass
    hist,                    \* history: one record per finished extraction
    merged,                  \* history: per entity, rows and sums really merged
    confirmed,               \* history: ids the transport confirmed in this alert run
    attempted,               \* history: snapshot rows handed to the transport
    calls,                   \* number of direct calls of load_batch_to_db
    runs,                    \* concurrent DAG runs: task position and locals of each
    mergedBy                 \* history: pass, batch number and run of every commit

vars == <<batch_size, alert_threshold, sentiment_batch_number, pc, caller, xcom,
          load_args, product, reviews, notification, tx, alerts_to_send, sent_ids,
          outcome, pre, committed, hist, merged, confirmed, attempted, calls,
          runs, mergedBy>>

(***************************************************************************)
(* Bounds of the model.                                                    *)
(***************************************************************************)
MaxRuns == 4        \* extractions of the DAG that are explored
MaxLoads == 2       \* direct calls of load_batch_to_db that are explored
MaxBatchLen == 2    \* records in a directly supplied batch
MaxActiveRuns == 2  \* DAG runs that are active at the same time

Entities == {"e1", "e2"}
NaN == "NaN"

BatchSizes == {2, 5}
Thresholds == {1, 2}

(***************************************************************************)
(* Exact rationals.                                                        *)
(***************************************************************************)
RECURSIVE GCD(_, _)
GCD(a, b) == IF b = 0 THEN a ELSE GCD(b, a % b)

Rat(n, d) == IF n = 0 THEN <<0, 1>> ELSE <<n \div GCD(n, d), d \div GCD(n, d)>>
RatTimesInt(r, k) == Rat(r[1] * k, r[2])
RatPlus(r, s) == Rat(r[1] * s[2] + s[1] * r[2], r[2] * s[2])
RatOverInt(r, k) == Rat(r[1], r[2] * k)

(***************************************************************************)
(* The source file reviews_data.csv: seven data rows under a header line.  *)
(* Price and Stars are raw cells: a parsable number or some other text.    *)
(* Review is raw text: "ar" holds Arabic letters, "latin" holds none.      *)
(* argmax is the class index the model returns for the row's text.         *)
(***************************************************************************)
Num(v) == [kind |-> "num", v |-> v]
Text == [kind |-> "text", v |-> 0]

Row(a, p, s, r, m) == [ASIN |-> a, Price |-> p, Stars |-> s, Review |-> r, argmax |-> m]

reviews_data ==
    << Row("e1", Num(10), Num(5), "ar", 0),
       Row("e1", Num(30), Num(3), "ar", 2),
       Row("e2", Num(10), Num(4), "latin", 1),
       Row("e2", Text, Num(1), "latin", 0),
       Row("e1", Num(50), Num(2), "ar", 3),
       Row("e2", Num(30), Num(2), "ar", 0),
       Row("e2", Num(10), Text, "ar", 2) >>

Slice(s, lo, hi) == [i \in 1..(IF hi >= lo THEN hi - lo + 1 ELSE 0) |-> s[lo + i - 1]]

Min(a, b) == IF a < b THEN a ELSE b

(***************************************************************************)
(* extract_batch: skiprows = 1 + (batch_number - 1) * batch_size lines     *)
(* (the header and the rows before the batch), then nrows = batch_size.    *)
(* The result is the rows read; an empty read is the function's None.      *)
(***************************************************************************)
\* The offset with batch numbers counted from 0.
start_row_FromOne(batch_number, size) == 1 + batch_number * size

start_row(batch_number, size) == 1 + (batch_number - 1) * size

\* An extraction that reads one row more than size.
extract_batch_OneMore(file, batch_number, size) ==
    LET first == start_row(batch_number, size)
    IN  Slice(file, first, Min(first + size, Len(file)))

\* An extraction that returns nothing when fewer than size rows are left.
extract_batch_ShortIsNone(file, batch_number, size) ==
    LET first == start_row(batch_number, size)
    IN  IF first + size - 1 > Len(file) THEN <<>>
        ELSE Slice(file, first, first + size - 1)

extract_batch(file, batch_number, size) ==
    LET first == start_row(batch_number, size)      \* lines skipped, header included
    IN  Slice(file, first, Min(first + size - 1, Len(file)))

(***************************************************************************)
(* transform_data.py                                                       *)
(***************************************************************************)
clean_arabic_text(text) == IF text = "ar" THEN "ar" ELSE NaN

HasCleanReview(r) == r.clean_review # NaN

AddClean(r) == [ASIN |-> r.ASIN, Price |-> r.Price, Stars |-> r.Stars,
                Review |-> r.Review, argmax |-> r.argmax,
                clean_review |-> clean_arabic_text(r.Review)]

\* The cleaned rows; the empty sequence is the function's None.
preprocess_text_batch(df) ==
    SelectSeq([i \in 1..Len(df) |-> AddClean(df[i])], HasCleanReview)

(***************************************************************************)
(* model_utilies.py                                                        *)
(***************************************************************************)
arabic_id2label(p) ==
    CASE p = 2 -> "Positive"
      [] p = 1 -> "Neutral"
      [] p = 0 -> "Negative"
      [] OTHER -> "unknown"

Classified(a, p, s, r, l) ==
    [ASIN |-> a, Title |-> "title", Price |-> p, Stars |-> s, Review |-> r,
     predicted_sentiment |-> l]

\* A classified record whose Title cell is empty in the source.
Untitled(a, p, s, r, l) == [Classified(a, p, s, r, l) EXCEPT !.Title = NaN]

predict_sentiment_batch(df) ==
    LET df_clean == SelectSeq(df, HasCleanReview)
    IN  [i \in 1..Len(df_clean) |->
            Classified(df_clean[i].ASIN, df_clean[i].Price, df_clean[i].Stars,
                       df_clean[i].Review, arabic_id2label(df_clean[i].argmax))]

AdapterLabels == {arabic_id2label(p) : p \in 0..3}

(***************************************************************************)
(* load_data.py: cleaning and aggregation                                  *)
(***************************************************************************)
NaNCell == [kind |-> "nan", v |-> 0]

clean_and_convert_to_numeric(cell) == IF cell.kind = "num" THEN Num(cell.v) ELSE NaNCell

NumericOk(r) ==
    /\ clean_and_convert_to_numeric(r.Price) # NaNCell
    /\ clean_and_convert_to_numeric(r.Stars) # NaNCell

\* A cleaning that keeps the rows whose Price or Stars is no number.
CleanNumeric_KeepAll(df) == df

\* df_batch after the conversion of Price and Stars and dropna on both.
CleanNumeric(df) == SelectSeq(df, NumericOk)

RECURSIVE SumPrice(_)
SumPrice(s) == IF s = <<>> THEN 0 ELSE Head(s).Price.v + SumPrice(Tail(s))

RECURSIVE SumStars(_)
SumStars(s) == IF s = <<>> THEN 0 ELSE Head(s).Stars.v + SumStars(Tail(s))

RECURSIVE CountLabel(_, _)
CountLabel(s, l) ==
    IF s = <<>> THEN 0
    ELSE (IF Head(s).predicted_sentiment = l THEN 1 ELSE 0) + CountLabel(Tail(s), l)

RECURSIVE CountReview(_)
CountReview(s) ==
    IF s = <<>> THEN 0
    ELSE (IF Head(s).Review # NaN THEN 1 ELSE 0) + CountReview(Tail(s))

RECURSIVE GroupOf(_, _)
GroupOf(s, e) ==
    IF s = <<>> THEN <<>>
    ELSE (IF Head(s).ASIN = e /\ Head(s).Title # NaN THEN <<Head(s)>> ELSE <<>>)
         \o GroupOf(Tail(s), e)

EntitiesIn(df) == {df[i].ASIN : i \in {j \in 1..Len(df) : df[j].Title # NaN}}

\* One row of product_agg: the aggregates of the group of entity e.
AggRow(g) ==
    [avg_price |-> Rat(SumPrice(g), Len(g)),
     avg_rates |-> Rat(SumStars(g), Len(g)),
     total_reviews |-> CountReview(g),
     num_positive |-> CountLabel(g, "ijabi"),
     num_negative |-> CountLabel(g, "salbi"),
     num_neutral |-> CountLabel(g, "muhayid")]

product_agg(df) == [e \in EntitiesIn(df) |-> AggRow(GroupOf(df, e))]

(***************************************************************************)
(* load_data.py: the three writes of the transaction.  A table is a        *)
(* function from the keys that have a row to the row.                      *)
(***************************************************************************)
EmptyTable == [e \in {} |-> 0]

Put(table, k, row) == [x \in DOMAIN table \cup {k} |-> IF x = k THEN row ELSE table[x]]

\* The same statement with total_reviews assigned before the averages.
upsert_prod_sql_TotalFirst(table, e, a) ==
    IF e \notin DOMAIN table
    THEN Put(table, e,
             [AVG_price |-> a.avg_price, AVG_rates |-> a.avg_rates,
              num_pos_reviews |-> a.num_positive, num_nat_reviews |-> a.num_neutral,
              num_neg_reviews |-> a.num_negative, total_reviews |-> a.total_reviews])
    ELSE LET old == table[e]
             new_total == old.total_reviews + a.total_reviews
         IN  Put(table, e,
                 [AVG_price |-> RatOverInt(RatPlus(RatTimesInt(old.AVG_price, new_total),
                                                   RatTimesInt(a.avg_price, a.total_reviews)),
                                           new_total + a.total_reviews),
                  AVG_rates |-> RatOverInt(RatPlus(RatTimesInt(old.AVG_rates, new_total),
                                                   RatTimesInt(a.avg_rates, a.total_reviews)),
                                           new_total + a.total_reviews),
                  num_pos_reviews |-> old.num_pos_reviews + a.num_positive,
                  num_nat_reviews |-> old.num_nat_reviews + a.num_neutral,
                  num_neg_reviews |-> old.num_neg_reviews + a.num_negative,
                  total_reviews |-> new_total])

\* INSERT ... ON DUPLICATE KEY UPDATE of one product_agg row.  MySQL assigns
\* left to right: total_reviews is assigned last, so both averages are
\* computed with the stored total_reviews.
upsert_prod_sql(table, e, a) ==
    IF e \notin DOMAIN table
    THEN Put(table, e,
             [AVG_price |-> a.avg_price, AVG_rates |-> a.avg_rates,
              num_pos_reviews |-> a.num_positive, num_nat_reviews |-> a.num_neutral,
              num_neg_reviews |-> a.num_negative, total_reviews |-> a.total_reviews])
    ELSE LET old == table[e]
             new_total == old.total_reviews + a.total_reviews
         IN  Put(table, e,
                 [AVG_price |-> RatOverInt(RatPlus(RatTimesInt(old.AVG_price, old.total_reviews),
                                                   RatTimesInt(a.avg_price, a.total_reviews)),
                                           new_total),
                  AVG_rates |-> RatOverInt(RatPlus(RatTimesInt(old.AVG_rates, old.total_reviews),
                                                   RatTimesInt(a.avg_rates, a.total_reviews)),
                                           new_total),
                  num_pos_reviews |-> old.num_pos_reviews + a.num_positive,
                  num_nat_reviews |-> old.num_nat_reviews + a.num_neutral,
                  num_neg_reviews |-> old.num_neg_reviews + a.num_negative,
                  total_reviews |-> new_total])

RECURSIVE UpsertAll(_, _, _)
UpsertAll(table, agg, keys) ==
    IF keys = {} THEN table
    ELSE LET e == CHOOSE x \in keys : TRUE
         IN  UpsertAll(upsert_prod_sql(table, e, agg[e]), agg, keys \ {e})

\* cursor.executemany(upsert_prod_sql, prod_data)
UpsertProducts(table, df) == UpsertAll(table, product_agg(df), EntitiesIn(df))

\* The reviews table as a bag: <<prod_id, predicted_sentiment>> -> rows.
RECURSIVE insert_reviews_sql(_, _)
insert_reviews_sql(table, df) ==
    IF df = <<>> THEN table
    ELSE LET r == Head(df)
             k == <<r.ASIN, r.predicted_sentiment>>
             t == IF r.Review = NaN THEN table
                  ELSE Put(table, k, IF k \in DOMAIN table THEN table[k] + 1 ELSE 1)
         IN  insert_reviews_sql(t, Tail(df))

\* Only the entities the batch itself brought a negative review for.
products_to_notify_BatchNegatives(prod, df) ==
    {e \in EntitiesIn(df) : e \in DOMAIN prod /\ CountLabel(GroupOf(df, e), "salbi") > 0}

\* SELECT ... WHERE product_id IN (batch) AND num_neg_reviews > 0
products_to_notify(prod, df) ==
    {e \in EntitiesIn(df) : e \in DOMAIN prod /\ prod[e].num_neg_reviews > 0}

\* An update on duplicate key that leaves the stored count and message.
insert_notification_sql_KeepsCount(table, e, num_neg, threshold) ==
    IF e \in DOMAIN table
    THEN Put(table, e, [table[e] EXCEPT !.threshold = threshold, !.send_status = "no"])
    ELSE Put(table, e, [message |-> num_neg, num_negative |-> num_neg,
                        threshold |-> threshold, send_status |-> "no"])

\* A row written only once the count has reached the threshold.
insert_notification_sql_AtThreshold(table, e, num_neg, threshold) ==
    IF num_neg >= threshold
    THEN Put(table, e, [message |-> num_neg, num_negative |-> num_neg,
                        threshold |-> threshold, send_status |-> "no"])
    ELSE table

\* INSERT ... ON DUPLICATE KEY UPDATE of one notification row.  The message
\* text is determined by the entity and the count it quotes.
insert_notification_sql(table, e, num_neg, threshold) ==
    Put(table, e, [message |-> num_neg, num_negative |-> num_neg,
                   threshold |-> threshold, send_status |-> "no"])

RECURSIVE NotifyAll(_, _, _, _)
NotifyAll(table, prod, keys, threshold) ==
    IF keys = {} THEN table
    ELSE LET e == CHOOSE x \in keys : TRUE
         IN  NotifyAll(insert_notification_sql(table, e, prod[e].num_neg_reviews, threshold),
                       prod, keys \ {e}, threshold)

(***************************************************************************)
(* alert_system.py: selection and filter                                   *)
(***************************************************************************)
\* One row of the selection, as the query returns it; send_status is the
\* value the WHERE clause saw.
Alert(table, e) ==
    [district_id |-> e, alert_message |-> table[e].message,
     num_neg_reviews |-> table[e].num_negative, threshold |-> table[e].threshold,
     send_status |-> table[e].send_status]

\* WHERE n.send_status = 'no'
all_pending_alerts(table) == {Alert(table, e) : e \in {x \in DOMAIN table : table[x].send_status = "no"}}

\* alert["num_neg_reviews"] >= alert["threshold"]
\* The selection without the threshold filter.
MeetsThreshold_NoFilter(alert) == TRUE

MeetsThreshold(alert) == alert.num_neg_reviews >= alert.threshold

\* A statement that removes the rows of the sent ids.
update_sql_DeleteSent(table, ids) ==
    [e \in {x \in DOMAIN table : \A i \in 1..Len(ids) : ids[i] # x} |-> table[e]]

\* An UPDATE that matches no row.
update_sql_NoRow(table, ids) == table

\* UPDATE notifications SET send_status = 'yes' WHERE district_id = %s
update_sql(table, ids) ==
    [e \in DOMAIN table |->
        IF \E i \in 1..Len(ids) : ids[i] = e
        THEN [table[e] EXCEPT !.send_status = "yes"]
        ELSE table[e]]

\* The orders in which a result set may come back.
Orders(S) == {q \in [1..Cardinality(S) -> S] : \A i, j \in 1..Cardinality(S) : i # j => q[i] # q[j]}

(***************************************************************************)
(* State after construction: an empty store, the cursor at its default 1.  *)
(***************************************************************************)
NoXcom == [status |-> "", dataframe |-> <<>>, batch_number |-> 0,
           cleaned |-> <<>>, predicted |-> <<>>]
NoTx == [product |-> EmptyTable, reviews |-> EmptyTable, notification |-> EmptyTable]
NoRun == [pc |-> "idle", batch_number |-> 0, dataframe |-> <<>>, pass |-> 0, id |-> 0]
NoArgs == [df_in |-> <<>>, df_batch |-> <<>>, batch_number |-> 0, threshold |-> 0]

InitStore ==
    /\ sentiment_batch_number = 1
    /\ pc = "idle"
    /\ xcom = NoXcom
    /\ load_args = NoArgs
    /\ product = EmptyTable
    /\ reviews = EmptyTable
    /\ notification = EmptyTable
    /\ tx = NoTx
    /\ alerts_to_send = <<>>
    /\ sent_ids = <<>>
    /\ outcome = "none"
    /\ pre = [batch_number |-> 1, product |-> EmptyTable, notification |-> EmptyTable]
    /\ committed = {}
    /\ hist = <<>>
    /\ merged = [e \in Entities |-> [n |-> 0, price |-> 0, stars |-> 0]]
    /\ confirmed = {}
    /\ attempted = {}
    /\ calls = 0
    /\ runs = [r \in 1..MaxActiveRuns |-> NoRun]
    /\ mergedBy = {}

InitCommon ==
    /\ alert_threshold \in Thresholds
    /\ InitStore

Init ==
    /\ InitCommon
    /\ caller = "dag"
    /\ batch_size \in BatchSizes

db == <<product, reviews, notification>>
alertLocals == <<alerts_to_send, sent_ids, confirmed, attempted>>
config == <<batch_size, alert_threshold>>
conc == <<runs, mergedBy>>

(***************************************************************************)
(* The DAG's tasks                                                         *)
(***************************************************************************)
\* extract_task_py: read the Variable, extract, write the Variable, push.
ExtractTask ==
    /\ pc = "idle"
    /\ caller = "dag"
    /\ Len(hist) < MaxRuns
    /\ LET batch_number == sentiment_batch_number
           rows == extract_batch(reviews_data, batch_number, batch_size)
           first == start_row(batch_number, batch_size)
           next == IF rows = <<>> THEN 1 ELSE batch_number + 1
       IN  /\ sentiment_batch_number' = next
           /\ xcom' = IF rows = <<>>
                      THEN [NoXcom EXCEPT !.status = "EOF"]
                      ELSE [NoXcom EXCEPT !.dataframe = rows, !.batch_number = batch_number]
           /\ hist' = Append(hist, [batch_number |-> batch_number, first |-> first,
                                    last |-> first + Len(rows) - 1,
                                    eof |-> (rows = <<>>), after |-> next])
           /\ committed' = IF rows = <<>> THEN {} ELSE committed
           /\ pre' = [batch_number |-> batch_number, product |-> product,
                      notification |-> notification]
    /\ pc' = "transform_task"
    /\ outcome' = "running"
    /\ UNCHANGED <<config, caller, load_args, db, tx, alertLocals, merged, calls, conc>>

\* An extract task that writes the Variable before extract_batch raises.
ExtractFail_CursorSet ==
    /\ pc = "idle"
    /\ caller = "dag"
    /\ Len(hist) < MaxRuns
    /\ outcome' = "failed"
    /\ sentiment_batch_number' = IF sentiment_batch_number <= MaxRuns
                                 THEN sentiment_batch_number + 1 ELSE 1
    /\ pre' = [batch_number |-> sentiment_batch_number, product |-> product,
               notification |-> notification]
    /\ UNCHANGED <<config, pc, caller, xcom, load_args, db, tx,
                   alertLocals, committed, hist, merged, calls, conc>>

\* extract_batch raises (file missing, read error): the task fails.
ExtractFail ==
    /\ pc = "idle"
    /\ caller = "dag"
    /\ Len(hist) < MaxRuns
    /\ outcome' = "failed"
    /\ pre' = [batch_number |-> sentiment_batch_number, product |-> product,
               notification |-> notification]
    /\ UNCHANGED <<config, sentiment_batch_number, pc, caller, xcom, load_args, db, tx,
                   alertLocals, committed, hist, merged, calls, conc>>

\* A transform task that takes a batch empty after cleaning for the end of
\* the source: status EOF, the Variable back to 1.
TransformTask_EmptyIsEof ==
    /\ pc = "transform_task"
    /\ xcom' = IF xcom.status = "EOF" THEN xcom
               ELSE IF preprocess_text_batch(xcom.dataframe) = <<>>
                    THEN [xcom EXCEPT !.status = "EOF"]
                    ELSE [xcom EXCEPT !.cleaned = preprocess_text_batch(xcom.dataframe)]
    /\ sentiment_batch_number' = IF xcom'.status = "EOF" THEN 1 ELSE sentiment_batch_number
    /\ pc' = "predict_task"
    /\ UNCHANGED <<config, caller, load_args, db, tx, alertLocals,
                   outcome, pre, committed, hist, merged, calls, conc>>

\* transform_task_py
TransformTask ==
    /\ pc = "transform_task"
    /\ xcom' = IF xcom.status = "EOF" THEN xcom
               ELSE [xcom EXCEPT !.cleaned = preprocess_text_batch(xcom.dataframe)]
    /\ pc' = "predict_task"
    /\ UNCHANGED <<config, sentiment_batch_number, caller, load_args, db, tx, alertLocals,
                   outcome, pre, committed, hist, merged, calls, conc>>

\* predict_task_py
PredictTask ==
    /\ pc = "predict_task"
    /\ xcom' = IF xcom.status = "EOF" \/ xcom.cleaned = <<>> THEN xcom
               ELSE [xcom EXCEPT !.predicted = predict_sentiment_batch(xcom.cleaned)]
    /\ pc' = "load_task"
    /\ UNCHANGED <<config, sentiment_batch_number, caller, load_args, db, tx, alertLocals,
                   outcome, pre, committed, hist, merged, calls, conc>>

\* A task of the run raises before it has written anything (a missing column,
\* the model failing to load, the database refusing the connection, the
\* worker dying): the run fails and the tasks after it do not run.
TaskFail ==
    /\ pc \in {"transform_task", "predict_task", "load_task", "alert_task"}
    /\ pc' = "idle"
    /\ outcome' = "failed"
    /\ UNCHANGED <<config, sentiment_batch_number, caller, xcom, load_args, db, tx,
                   alertLocals, pre, committed, hist, merged, calls, conc>>

(***************************************************************************)
(* load_batch_to_db                                                        *)
(***************************************************************************)
AfterLoad == IF caller = "dag" THEN "alert_task" ELSE "idle"
AfterLoadOutcome == IF caller = "dag" THEN outcome ELSE "load_returned"
AfterAlertOutcome == IF caller = "dag" THEN "success" ELSE "alert_returned"

\* Lines 37-59: the two emptiness checks, the cleaning, the connection.
load_batch_to_db(df, batch_number, threshold) ==
    LET cleaned == CleanNumeric(df)
    IN  IF df = <<>> \/ cleaned = <<>>
        THEN /\ pc' = AfterLoad
             /\ outcome' = AfterLoadOutcome
             /\ UNCHANGED <<load_args, tx>>
        ELSE /\ pc' = "upsert_product"
             /\ load_args' = [df_in |-> df, df_batch |-> cleaned,
                              batch_number |-> batch_number, threshold |-> threshold]
             /\ tx' = [product |-> product, reviews |-> reviews,
                       notification |-> notification]
             /\ UNCHANGED outcome

\* load_task_py
LoadTask ==
    /\ pc = "load_task"
    /\ IF xcom.status = "EOF" \/ xcom.predicted = <<>>
       THEN /\ pc' = "alert_task"
            /\ UNCHANGED <<load_args, tx, outcome>>
       ELSE load_batch_to_db(xcom.predicted, xcom.batch_number, alert_threshold)
    /\ UNCHANGED <<config, sentiment_batch_number, caller, xcom, db, alertLocals,
                   pre, committed, hist, merged, calls, conc>>

UpsertProduct ==
    /\ pc = "upsert_product"
    /\ tx' = [tx EXCEPT !.product = UpsertProducts(tx.product, load_args.df_batch)]
    /\ pc' = "insert_reviews"
    /\ UNCHANGED <<config, sentiment_batch_number, caller, xcom, load_args, db, alertLocals,
                   outcome, pre, committed, hist, merged, calls, conc>>

InsertReviews ==
    /\ pc = "insert_reviews"
    /\ tx' = [tx EXCEPT !.reviews = insert_reviews_sql(tx.reviews, load_args.df_batch)]
    /\ pc' = "insert_notification"
    /\ UNCHANGED <<config, sentiment_batch_number, caller, xcom, load_args, db, alertLocals,
                   outcome, pre, committed, hist, merged, calls, conc>>

InsertNotification ==
    /\ pc = "insert_notification"
    /\ tx' = [tx EXCEPT !.notification =
                 NotifyAll(tx.notification, tx.product,
                           products_to_notify(tx.product, load_args.df_batch),
                           load_args.threshold)]
    /\ pc' = "commit"
    /\ UNCHANGED <<config, sentiment_batch_number, caller, xcom, load_args, db, alertLocals,
                   outcome, pre, committed, hist, merged, calls, conc>>

\* What a batch really holds for entity e: its rows and their sums.
Merge(m, df) ==
    [e \in Entities |->
        [n |-> m[e].n + Len(GroupOf(df, e)),
         price |-> m[e].price + SumPrice(GroupOf(df, e)),
         stars |-> m[e].stars + SumStars(GroupOf(df, e))]]

\* What conn.commit() makes visible.
CommitTx(t) == t

\* conn.commit()
Commit ==
    /\ pc = "commit"
    /\ product' = CommitTx(tx).product
    /\ reviews' = CommitTx(tx).reviews
    /\ notification' = CommitTx(tx).notification
    /\ tx' = NoTx
    /\ committed' = IF caller = "dag" THEN committed \cup {load_args.batch_number}
                    ELSE committed
    /\ merged' = Merge(merged, load_args.df_batch)
    /\ load_args' = NoArgs
    /\ pc' = AfterLoad
    /\ outcome' = AfterLoadOutcome
    /\ UNCHANGED <<config, sentiment_batch_number, caller, xcom, alertLocals,
                   pre, hist, calls, conc>>

\* A rollback that does not undo the product upsert.
RollbackTx_ProductKept(d, t) == <<t.product, d[2], d[3]>>

\* What conn.rollback() leaves of the committed tables.
RollbackTx(d, t) == d

\* A statement of the transaction (or the commit) fails: rollback, raise.
Rollback ==
    /\ pc \in {"upsert_product", "insert_reviews", "insert_notification", "commit"}
    /\ product' = RollbackTx(db, tx)[1]
    /\ reviews' = RollbackTx(db, tx)[2]
    /\ notification' = RollbackTx(db, tx)[3]
    /\ tx' = NoTx
    /\ load_args' = NoArgs
    /\ pc' = "idle"
    /\ outcome' = "failed"
    /\ UNCHANGED <<config, sentiment_batch_number, caller, xcom, alertLocals,
                   pre, committed, hist, merged, calls, conc>>

(***************************************************************************)
(* check_and_send_alerts                                                   *)
(***************************************************************************)
\* Lines 47-99: the selection read, the filter, the two early returns.
check_and_send_alerts ==
    LET to_send == {a \in all_pending_alerts(notification) : MeetsThreshold(a)}
    IN  /\ confirmed' = {}
        /\ attempted' = {}
        /\ sent_ids' = <<>>
        /\ IF to_send = {}
           THEN /\ alerts_to_send' = <<>>
                /\ pc' = "idle"
                /\ outcome' = AfterAlertOutcome
           ELSE /\ alerts_to_send' \in Orders(to_send)
                /\ pc' = "send"
                /\ UNCHANGED outcome

\* alert_task_py
AlertTask ==
    /\ pc = "alert_task"
    /\ IF xcom.status = "EOF"
       THEN /\ pc' = "idle"
            /\ outcome' = "success"
            /\ UNCHANGED alertLocals
       ELSE check_and_send_alerts
    /\ UNCHANGED <<config, sentiment_batch_number, caller, xcom, load_args, db, tx,
                   pre, committed, hist, merged, calls, conc>>

\* The ids appended to sent_district_ids once smtp.send_message has returned.
AppendSent(ids, alert) == Append(ids, alert.district_id)

\* One pass of the send loop: the transport confirms the delivery.
SendConfirmed ==
    /\ pc = "send"
    /\ alerts_to_send # <<>>
    /\ attempted' = attempted \cup {Head(alerts_to_send)}
    /\ confirmed' = confirmed \cup {Head(alerts_to_send).district_id}
    /\ sent_ids' = AppendSent(sent_ids, Head(alerts_to_send))
    /\ alerts_to_send' = Tail(alerts_to_send)
    /\ UNCHANGED <<config, sentiment_batch_number, pc, caller, xcom, load_args, db, tx,
                   outcome, pre, committed, hist, merged, calls, conc>>

\* The id recorded before the transport has confirmed the send.
AfterFailedSend_Counted(ids, alert) == Append(ids, alert.district_id)

\* What the handler of a failed send keeps of sent_district_ids.
AfterFailedSend(ids, alert) == ids

\* The connection, the login or a send raises: the except clause ends the loop.
SendFailed ==
    /\ pc = "send"
    /\ alerts_to_send # <<>>
    /\ attempted' = attempted \cup {Head(alerts_to_send)}
    /\ sent_ids' = AfterFailedSend(sent_ids, Head(alerts_to_send))
    /\ alerts_to_send' = <<>>
    /\ UNCHANGED <<config, sentiment_batch_number, pc, caller, xcom, load_args, db, tx,
                   confirmed, outcome, pre, committed, hist, merged, calls, conc>>

\* Lines 133-162: nothing sent, or the UPDATE of the sent ids.
UpdateStatus ==
    /\ pc = "send"
    /\ alerts_to_send = <<>>
    /\ notification' = IF sent_ids = <<>> THEN notification
                       ELSE update_sql(notification, sent_ids)
    /\ sent_ids' = <<>>
    /\ attempted' = {}
    /\ pc' = "idle"
    /\ outcome' = AfterAlertOutcome
    /\ UNCHANGED <<config, sentiment_batch_number, caller, xcom, load_args, product, reviews,
                   tx, alerts_to_send, confirmed, pre, committed, hist, merged, calls, conc>>

\* The UPDATE raises my.Error: logged, not raised.
UpdateStatusFailed ==
    /\ pc = "send"
    /\ alerts_to_send = <<>>
    /\ sent_ids # <<>>
    /\ sent_ids' = <<>>
    /\ attempted' = {}
    /\ pc' = "idle"
    /\ outcome' = AfterAlertOutcome
    /\ UNCHANGED <<config, sentiment_batch_number, caller, xcom, load_args, db,
                   tx, alerts_to_send, confirmed, pre, committed, hist, merged, calls, conc>>

(***************************************************************************)
(* The configuration file changes.  alert_threshold is read once per run   *)
(* (load_task_py), so a change while a run is under way is seen exactly as *)
(* one made before the run started or after it ended.                      *)
(***************************************************************************)
ConfigChange ==
    /\ pc = "idle"
    /\ \E t \in Thresholds \ {alert_threshold} : alert_threshold' = t
    /\ UNCHANGED <<batch_size, sentiment_batch_number, pc, caller, xcom, load_args, db, tx,
                   alertLocals, outcome, pre, committed, hist, merged, calls, conc>>

(***************************************************************************)
(* The DAG, one run at a time.  The send loop and the status update are    *)
(* not part of it: PipelineNeverNotifies shows the DAG never has a         *)
(* notification to select.                                                 *)
(***************************************************************************)
Next ==
    \/ ExtractTask
    \/ ExtractFail
    \/ TransformTask
    \/ PredictTask
    \/ TaskFail
    \/ LoadTask
    \/ UpsertProduct
    \/ InsertReviews
    \/ InsertNotification
    \/ Commit
    \/ Rollback
    \/ AlertTask
    \/ ConfigChange

Spec == Init /\ [][Next]_vars

(***************************************************************************)
(* The writer and the notifier called with classified batches of any       *)
(* content: the contract of load_batch_to_db and check_and_send_alerts.    *)
(***************************************************************************)
DirectRecords ==
    << Classified("e1", Num(10), Num(3), "ar", "salbi"),
       Classified("e1", Num(30), Num(3), "ar", "ijabi"),
       Classified("e1", Text, Num(3), "ar", "ijabi"),
       Classified("e2", Num(10), Num(3), "ar", "salbi"),
       Classified("e2", Num(30), Num(3), "ar", "ijabi") >>

\* The aggregates of a batch do not depend on the order of its rows: one
\* order of each batch is enough.
SortedIndexes(n) ==
    {f \in [1..n -> 1..Len(DirectRecords)] : \A i \in 1..(n - 1) : f[i] <= f[i + 1]}

DirectBatches ==
    UNION {{[i \in 1..n |-> DirectRecords[ix[i]]] : ix \in SortedIndexes(n)} : n \in 1..MaxBatchLen}

InitWriter ==
    /\ InitCommon
    /\ caller = "direct"
    /\ batch_size = 5

CallLoad ==
    /\ pc = "idle"
    /\ caller = "direct"
    /\ calls < MaxLoads
    /\ calls' = calls + 1
    /\ \E df \in DirectBatches : load_batch_to_db(df, calls + 1, alert_threshold)
    /\ UNCHANGED <<config, sentiment_batch_number, caller, xcom, db, alertLocals,
                   pre, committed, hist, merged, conc>>

CallAlert ==
    /\ pc = "idle"
    /\ caller = "direct"
    /\ check_and_send_alerts
    /\ UNCHANGED <<config, sentiment_batch_number, caller, xcom, load_args, db, tx,
                   pre, committed, hist, merged, calls, conc>>

NextWriter ==
    \/ CallLoad
    \/ UpsertProduct
    \/ InsertReviews
    \/ InsertNotification
    \/ Commit
    \/ Rollback
    \/ CallAlert
    \/ SendConfirmed
    \/ SendFailed
    \/ UpdateStatus
    \/ UpdateStatusFailed
    \/ ConfigChange

SpecWriter == InitWriter /\ [][NextWriter]_vars

(***************************************************************************)
(* DAG runs that overlap.  The DAG sets no max_active_runs, so a run that  *)
(* the scheduler or a manual trigger starts while another is active runs   *)
(* beside it.  extract_task_py reads the Variable (Variable.get) and       *)
(* writes it (Variable.set) in two separate operations with the            *)
(* extraction in between; the tasks after it pass their data in XComs of   *)
(* the run and touch shared state only in the transaction of               *)
(* load_batch_to_db, which is atomic (C4).                                 *)
(***************************************************************************)
seqVars == <<config, pc, caller, xcom, load_args, tx, alertLocals, outcome, pre,
             committed, calls>>

\* The runs started so far: the extractions done and those under way.
Started == Len(hist) + Cardinality({r \in DOMAIN runs : runs[r].pc = "extract"})

\* The resets of the cursor so far.
RECURSIVE Passes(_)
Passes(h) == IF h = <<>> THEN 0 ELSE (IF Head(h).eof THEN 1 ELSE 0) + Passes(Tail(h))

\* batch_number = int(Variable.get("sentiment_batch_number", default_var=1))
VariableGet(r) ==
    /\ runs[r].pc = "idle"
    /\ Started < MaxRuns
    /\ runs' = [runs EXCEPT ![r] = [NoRun EXCEPT !.pc = "extract",
                                                  !.batch_number = sentiment_batch_number]]
    /\ UNCHANGED <<seqVars, sentiment_batch_number, db, hist, merged, mergedBy>>

\* extract_batch(...), then Variable.set to 1 or to batch_number + 1.
ExtractAndSet(r) ==
    /\ runs[r].pc = "extract"
    /\ LET batch_number == runs[r].batch_number
           rows == extract_batch(reviews_data, batch_number, batch_size)
           first == start_row(batch_number, batch_size)
           next == IF rows = <<>> THEN 1 ELSE batch_number + 1
       IN  /\ sentiment_batch_number' = next
           /\ hist' = Append(hist, [batch_number |-> batch_number, first |-> first,
                                    last |-> first + Len(rows) - 1,
                                    eof |-> (rows = <<>>), after |-> next])
           /\ runs' = [runs EXCEPT ![r] =
                          IF rows = <<>> THEN NoRun
                          ELSE [pc |-> "load", batch_number |-> batch_number,
                                dataframe |-> rows, pass |-> Passes(hist),
                                id |-> Len(hist) + 1]]
    /\ UNCHANGED <<seqVars, db, merged, mergedBy>>

\* What transform_task and predict_task hand to load_batch_to_db, cleaned.
Pipeline(rows) == CleanNumeric(predict_sentiment_batch(preprocess_text_batch(rows)))

\* transform_task, predict_task, load_task of run r up to conn.commit().
RunLoad(r) ==
    /\ runs[r].pc = "load"
    /\ LET df == Pipeline(runs[r].dataframe)
       IN  IF df = <<>>
           THEN UNCHANGED <<db, merged, mergedBy>>
           ELSE /\ product' = UpsertProducts(product, df)
                /\ reviews' = insert_reviews_sql(reviews, df)
                /\ notification' = NotifyAll(notification, product',
                                             products_to_notify(product', df),
                                             alert_threshold)
                /\ merged' = Merge(merged, df)
                /\ mergedBy' = mergedBy \cup {[pass |-> runs[r].pass,
                                                batch_number |-> runs[r].batch_number,
                                                id |-> runs[r].id]}
    /\ runs' = [runs EXCEPT ![r] = NoRun]
    /\ UNCHANGED <<seqVars, sentiment_batch_number, hist>>

\* A task of run r raises after the extraction: the run ends.
RunFail(r) ==
    /\ runs[r].pc = "load"
    /\ runs' = [runs EXCEPT ![r] = NoRun]
    /\ UNCHANGED <<seqVars, sentiment_batch_number, db, hist, merged, mergedBy>>

NextConcurrent ==
    \/ \E r \in DOMAIN runs : VariableGet(r)
    \/ \E r \in DOMAIN runs : ExtractAndSet(r)
    \/ \E r \in DOMAIN runs : RunLoad(r)
    \/ \E r \in DOMAIN runs : RunFail(r)

SpecConcurrent == Init /\ [][NextConcurrent]_vars

(***************************************************************************)
(* The writer and the notifier with alert_threshold 4 and batches that     *)
(* carry negative records only: counts below, at and above the threshold,  *)
(* and one batch with a record whose Title is missing.                     *)
(***************************************************************************)
NegativeBatch(e, n) == [i \in 1..n |-> Classified(e, Num(10), Num(3), "ar", "salbi")]

UntitledBatch ==
    << Classified("e1", Num(10), Num(3), "ar", "salbi"),
       Untitled("e1", Num(10), Num(3), "ar", "salbi") >>

ScenarioBatches ==
    {NegativeBatch("e1", 3), NegativeBatch("e1", 2), NegativeBatch("e2", 4),
     NegativeBatch("e1", 3) \o NegativeBatch("e2", 4), UntitledBatch}

InitScenario ==
    /\ alert_threshold = 4
    /\ InitStore
    /\ caller = "direct"
    /\ batch_size = 5

CallLoadScenario ==
    /\ pc = "idle"
    /\ caller = "direct"
    /\ calls < MaxLoads
    /\ calls' = calls + 1
    /\ \E df \in ScenarioBatches : load_batch_to_db(df, calls + 1, alert_threshold)
    /\ UNCHANGED <<config, sentiment_batch_number, caller, xcom, db, alertLocals,
                   pre, committed, hist, merged, conc>>

NextScenario ==
    \/ CallLoadScenario
    \/ UpsertProduct
    \/ InsertReviews
    \/ InsertNotification
    \/ Commit
    \/ Rollback
    \/ CallAlert
    \/ SendConfirmed
    \/ SendFailed
    \/ UpdateStatus
    \/ UpdateStatusFailed

SpecScenario == InitScenario /\ [][NextScenario]_vars

(***************************************************************************)
(* The same with progress.  The schedule of the DAG keeps starting the     *)
(* notifier, a call of the notifier that has started runs to its return,   *)
(* and the database does not refuse the UPDATE of sent ids for ever.       *)
(* Nothing is assumed of the transport or of the writer.                   *)
(***************************************************************************)
ScenarioFairness ==
    /\ WF_vars(CallAlert)
    /\ WF_vars(SendConfirmed \/ SendFailed)
    /\ WF_vars(UpdateStatus \/ UpdateStatusFailed)
    /\ SF_vars(UpdateStatus /\ sent_ids # <<>>)

SpecScenarioFair == SpecScenario /\ ScenarioFairness

(***************************************************************************)
(* The notifier beside the writer.  check_and_send_alerts closes the       *)
(* connection of its selection before it sends and opens another for the   *)
(* UPDATE; a call of load_batch_to_db by another run (DAG runs overlap,    *)
(* see SpecConcurrent) can commit in between.  Its transaction becomes     *)
(* visible in one step (C4).                                               *)
(***************************************************************************)
CommitDuringSend ==
    /\ pc = "send"
    /\ caller = "direct"
    /\ calls < MaxLoads
    /\ calls' = calls + 1
    /\ \E df \in ScenarioBatches :
          LET cleaned == CleanNumeric(df)
          IN  /\ product' = UpsertProducts(product, cleaned)
              /\ reviews' = insert_reviews_sql(reviews, cleaned)
              /\ notification' = NotifyAll(notification, product',
                                           products_to_notify(product', cleaned),
                                           alert_threshold)
              /\ merged' = Merge(merged, cleaned)
    /\ UNCHANGED <<config, sentiment_batch_number, pc, caller, xcom, load_args, tx,
                   alertLocals, outcome, pre, committed, hist, conc>>

NextRace ==
    \/ CallLoadScenario
    \/ UpsertProduct
    \/ InsertReviews
    \/ InsertNotification
    \/ Commit
    \/ Rollback
    \/ CallAlert
    \/ SendConfirmed
    \/ SendFailed
    \/ UpdateStatus
    \/ UpdateStatusFailed
    \/ CommitDuringSend

SpecRace == InitScenario /\ [][NextRace]_vars

(***************************************************************************)
(* Properties                                                              *)
(***************************************************************************)
TypeOK ==
    /\ batch_size \in BatchSizes
    /\ alert_threshold \in Thresholds
    /\ sentiment_batch_number \in 1..(MaxRuns + 1)
    /\ caller \in {"dag", "direct"}
    /\ DOMAIN product \subseteq Entities
    /\ DOMAIN notification \subseteq DOMAIN product
    /\ \A e \in DOMAIN notification : notification[e].send_status \in {"no", "yes"}

\* The labels the adapter emits are none of the labels the writer counts, so
\* the DAG never stores a negative count and never writes a notification.
PipelineNeverNotifies == caller = "dag" => notification = EmptyTable

\* position of the spec's Cursor: the records consumed before batch b.
position(b) == (b - 1) * batch_size

\* C1: after every commit, every product row has
\* num_pos_reviews + num_nat_reviews + num_neg_reviews = total_reviews, the
\* records carrying the labels predict_sentiment_batch emits.
C1_CountersSumToTotal ==
    \A e \in DOMAIN product :
        product[e].num_pos_reviews + product[e].num_nat_reviews
            + product[e].num_neg_reviews = product[e].total_reviews

\* C2: the cursor is past a batch only if the transaction of that batch has
\* committed: every batch number below sentiment_batch_number is committed.
C2_CursorAdvancesOnlyAfterCommit ==
    \A b \in 1..(sentiment_batch_number - 1) : b \in committed

\* C3: a run that extracted a batch and stopped before the writer committed
\* it leaves the cursor, product and notification as they were when the run
\* started.
C3_FailedRunLeavesStateUnchanged ==
    (/\ pc = "idle"
     /\ outcome = "failed"
     /\ xcom.batch_number \notin committed)
    => /\ sentiment_batch_number = pre.batch_number
       /\ product = pre.product
       /\ notification = pre.notification

TxOpen == pc \in {"upsert_product", "insert_reviews", "insert_notification", "commit"}

\* The three writes of the batch in load_args, applied to the committed tables.
AllWritesVisible ==
    /\ product' = UpsertProducts(product, load_args.df_batch)
    /\ reviews' = insert_reviews_sql(reviews, load_args.df_batch)
    /\ notification' = NotifyAll(notification, product',
                                 products_to_notify(product', load_args.df_batch),
                                 load_args.threshold)

\* C4: load_batch_to_db is all-or-nothing: while its transaction is open a
\* step either leaves product, reviews and notification as they were before
\* the call or makes the three writes of the batch visible together, and a
\* call that raises leaves all three as they were.
C4_AllOrNothing ==
    [][TxOpen => /\ (db' = db \/ (pc = "commit" /\ AllWritesVisible))
                 /\ (outcome' = "failed" => db' = db)]_vars

\* A call failed after an earlier one had committed rows to all three tables.
C4_Witness ==
    /\ caller = "direct"
    /\ pc = "idle"
    /\ outcome = "failed"
    /\ product # EmptyTable
    /\ reviews # EmptyTable
    /\ notification # EmptyTable

C6_SentReturnsToPendingOnlyOnNewCount ==
    [][\A e \in DOMAIN notification :
          (notification[e].send_status = "yes" /\ notification'[e].send_status = "no")
          => product'[e].num_neg_reviews # notification[e].num_negative]_vars

HasNegatives(prod, e) == e \in DOMAIN prod /\ prod[e].num_neg_reviews > 0

\* C7: an entity has a notification row exactly when its stored
\* num_neg_reviews exceeds 0; the row appears, pending, in the commit that
\* takes the count above 0, and every commit that merges an entity whose
\* count is above 0 leaves its row pending.
C7_PendingWhenNegativesFirstExceedZero ==
    /\ [](\A e \in Entities : e \in DOMAIN notification <=> HasNegatives(product, e))
    /\ [][\A e \in Entities :
             (product' # product /\ e \in DOMAIN product' /\ HasNegatives(product', e)
                 /\ (e \notin DOMAIN product \/ product'[e] # product[e]))
             => /\ e \in DOMAIN notification'
                /\ notification'[e].send_status = "no"
                /\ notification'[e].num_negative = product'[e].num_neg_reviews
                /\ (~HasNegatives(product, e) => e \notin DOMAIN notification)]_vars

\* One entity merged without negatives has no row, while the other, whose
\* row had been sent, was merged again and is pending.
C7_Witness ==
    /\ pc = "idle"
    /\ outcome = "load_returned"
    /\ confirmed # {}
    /\ \E e \in DOMAIN product : ~HasNegatives(product, e) /\ e \notin DOMAIN notification
    /\ \E e \in confirmed : e \in DOMAIN notification /\ notification[e].send_status = "no"

\* C8: check_and_send_alerts turns pending into sent only for the ids the
\* transport confirmed in this run, and changes no other field of any row.
C8_SentOnlyWhenConfirmed ==
    [][pc = "send" =>
          /\ DOMAIN notification' = DOMAIN notification
          /\ \A e \in DOMAIN notification :
                /\ notification'[e] # notification[e]
                   => /\ e \in confirmed
                      /\ notification'[e] = [notification[e] EXCEPT !.send_status = "yes"]
                /\ (e \notin confirmed /\ notification[e].send_status = "no")
                   => notification'[e].send_status = "no"]_vars

\* A run in which one delivery was confirmed and one qualifying row was not.
C8_Witness ==
    /\ pc = "idle"
    /\ outcome = "alert_returned"
    /\ \E e \in confirmed : notification[e].send_status = "yes"
    /\ \E e \in DOMAIN notification \ confirmed :
          /\ notification[e].send_status = "no"
          /\ notification[e].num_negative >= notification[e].threshold

\* C9: every row handed to the transport was selected as pending with a
\* count at least the threshold stored in that row, and is the row as
\* stored; a change of the configured threshold changes no stored row.
C9_StoredThresholdDecides ==
    /\ [](\A a \in attempted \cup {alerts_to_send[i] : i \in 1..Len(alerts_to_send)} :
             /\ a.send_status = "no"
             /\ a.num_neg_reviews >= a.threshold
             /\ a.district_id \in DOMAIN notification
             /\ a = Alert(notification, a.district_id))
    /\ [][alert_threshold' # alert_threshold => notification' = notification]_vars

\* The configured threshold is 1; a pending row stored with threshold 2 and
\* count 1 is left out of a selection that delivers another row.
C9_Witness ==
    /\ pc = "send"
    /\ alert_threshold = 1
    /\ attempted # {}
    /\ \E e \in DOMAIN notification :
          /\ notification[e].send_status = "no"
          /\ notification[e].threshold = 2
          /\ notification[e].num_negative = 1
          /\ \A a \in attempted : a.district_id # e

\* The runs whose extraction returned, on the source of 7 rows with
\* batch_size 5.
Scenario7by5 == batch_size = 5 /\ Len(reviews_data) = 7

remaining(b) == IF Len(reviews_data) > position(b) THEN Len(reviews_data) - position(b) ELSE 0

C12_CursorStepsOnlyInSuccessfulRuns ==
    (pc = "idle" /\ outcome \in {"success", "failed"})
    => \/ sentiment_batch_number = pre.batch_number
       \/ /\ outcome = "success"
          /\ xcom.status # "EOF"
          /\ position(sentiment_batch_number) = position(pre.batch_number) + batch_size
       \/ /\ xcom.status = "EOF"
          /\ position(sentiment_batch_number) = 0

\* The stored negative count of entity e, 0 while it has no product row.
NegOf(prod, e) == IF e \in DOMAIN prod THEN prod[e].num_neg_reviews ELSE 0

\* The commit of a first batch with 3 negative records of e1, and the commit
\* of a second batch with 2 more, both under threshold 4.
FirstMerge == NegOf(product, "e1") = 0 /\ NegOf(product', "e1") = 3 /\ load_args.threshold = 4
SecondMerge == NegOf(product, "e1") = 3 /\ NegOf(product', "e1") = 5 /\ load_args.threshold = 4

\* C13 as stated: with threshold 4, after the merge of a first batch with 3
\* negative records entity e1 has no notification row; the merge of a second
\* batch with 2 negative records takes num_neg_reviews to 5 and creates the
\* row, pending, with num_negative 5.
C13_AsStated ==
    [][/\ FirstMerge => "e1" \notin DOMAIN notification'
       /\ SecondMerge =>
             /\ "e1" \notin DOMAIN notification
             /\ "e1" \in DOMAIN notification'
             /\ notification'["e1"].send_status = "no"
             /\ notification'["e1"].num_negative = 5]_vars

\* C13 amended: with threshold 4, the merge of a first batch with 3 negative
\* records creates the row of e1, pending, with num_negative 3, which the
\* selection leaves out (3 < 4); the merge of a second batch with 2 negative
\* records finds that row still pending and updates it: pending,
\* num_negative 5, which the selection takes (5 >= 4).
C13_Amended ==
    [][/\ FirstMerge =>
             /\ "e1" \notin DOMAIN notification
             /\ "e1" \in DOMAIN notification'
             /\ notification'["e1"].send_status = "no"
             /\ notification'["e1"].num_negative = 3
             /\ notification'["e1"].threshold = 4
             /\ ~MeetsThreshold(Alert(notification', "e1"))
       /\ SecondMerge =>
             /\ "e1" \in DOMAIN notification
             /\ notification["e1"].send_status = "no"
             /\ notification["e1"].num_negative = 3
             /\ "e1" \notin confirmed
             /\ notification'["e1"].send_status = "no"
             /\ notification'["e1"].num_negative = 5
             /\ notification'["e1"].threshold = 4
             /\ MeetsThreshold(Alert(notification', "e1"))]_vars

\* Both batches are merged, an alert run in between delivered nothing.
C13_Witness ==
    /\ pc = "idle"
    /\ calls = 2
    /\ outcome = "load_returned"
    /\ NegOf(product, "e1") = 5
    /\ product["e1"].total_reviews = 5
    /\ notification["e1"].num_negative = 5
    /\ notification["e1"].send_status = "no"
    /\ notification["e1"].threshold = 4

\* C14: in every committed state, every entity with a notification row has a
\* product row, and the row's num_negative is the product row's
\* num_neg_reviews.
C14_ObservedCountIsStoredCount ==
    \A e \in DOMAIN notification :
        /\ e \in DOMAIN product
        /\ notification[e].num_negative = product[e].num_neg_reviews

\* Two commits raised the count of an entity to 2 while the row of the other
\* entity, not merged again, stayed sent with its count of 1.
C14_Witness ==
    /\ pc = "idle"
    /\ calls = 2
    /\ \E e \in DOMAIN notification :
          /\ notification[e].num_negative = 2
          /\ product[e].total_reviews > 2
    /\ \E e \in DOMAIN notification :
          /\ notification[e].send_status = "yes"
          /\ notification[e].num_negative = 1

\* The batch as passed holds records of entity e, none with numeric Price
\* and Stars.
InvalidOnly(df, e) ==
    /\ GroupOf(df, e) # <<>>
    /\ \A i \in 1..Len(df) : df[i].ASIN = e => ~NumericOk(df[i])

\* The step conn.commit() of the call whose arguments load_args holds.
CommitStep == pc = "commit" /\ pc' # "commit" /\ outcome' # "failed"

\* The stored counter c of entity e, 0 while it has no product row.
CounterOf(prod, e, c) == IF e \in DOMAIN prod THEN prod[e][c] ELSE 0

\* C15 as stated: when the batch holds records of an entity, none of them
\* with valid numeric attributes, the commit adds the entity's positive,
\* neutral and negative label counts to its stored counters and leaves its
\* averages as they were.
C15_AsStated ==
    [][CommitStep =>
          \A e \in Entities :
              InvalidOnly(load_args.df_in, e) =>
                  /\ e \in DOMAIN product'
                  /\ product'[e].num_pos_reviews = CounterOf(product, e, "num_pos_reviews")
                         + CountLabel(GroupOf(load_args.df_in, e), "ijabi")
                  /\ product'[e].num_nat_reviews = CounterOf(product, e, "num_nat_reviews")
                         + CountLabel(GroupOf(load_args.df_in, e), "muhayid")
                  /\ product'[e].num_neg_reviews = CounterOf(product, e, "num_neg_reviews")
                         + CountLabel(GroupOf(load_args.df_in, e), "salbi")
                  /\ e \in DOMAIN product =>
                        /\ product'[e].AVG_price = product[e].AVG_price
                        /\ product'[e].AVG_rates = product[e].AVG_rates]_vars

\* C15 amended: when the batch holds records of an entity, none of them with
\* valid numeric attributes, those records are dropped before the
\* aggregation: the commit leaves the entity's product row (counters,
\* averages, total_reviews) and notification row exactly as they were, and
\* creates neither if the entity had none.
C15_Amended ==
    [][CommitStep =>
          \A e \in Entities :
              InvalidOnly(load_args.df_in, e) =>
                  /\ e \in DOMAIN product' <=> e \in DOMAIN product
                  /\ e \in DOMAIN product => product'[e] = product[e]
                  /\ e \in DOMAIN notification' <=> e \in DOMAIN notification
                  /\ e \in DOMAIN notification => notification'[e] = notification[e]]_vars

\* A commit is pending whose batch holds one valid record of e2 and, for
\* e1, only a record labelled positive whose Price is no number, while e1
\* has a product row from an earlier commit.
C15_Witness ==
    /\ pc = "commit"
    /\ InvalidOnly(load_args.df_in, "e1")
    /\ CountLabel(GroupOf(load_args.df_in, "e1"), "ijabi") = 1
    /\ "e1" \in DOMAIN product
    /\ "e2" \in DOMAIN tx.product

\* C16: under any interleaving of concurrent runs, no batch of a pass is
\* extracted and merged by more than one run.
C16_NoBatchMergedByTwoRuns ==
    \A a, b \in mergedBy :
        (a.pass = b.pass /\ a.batch_number = b.batch_number) => a.id = b.id

\* C17: when transform_task or predict_task fails on an extracted batch (its
\* retries used up), nothing of the batch is committed and the cursor is
\* where it was before the run, so the next run reads the same batch.
C17_FailedClassificationKeepsCursor ==
    [][(/\ pc \in {"transform_task", "predict_task"}
        /\ xcom.status # "EOF"
        /\ outcome' = "failed")
       => /\ product' = pre.product
          /\ notification' = pre.notification
          /\ xcom.batch_number \notin committed'
          /\ sentiment_batch_number' = pre.batch_number]_vars

\* C18: when extract_batch raises (the file is missing or cannot be read),
\* the run fails in extract_task, no later task of the run runs, and the
\* cursor, product, reviews and notification are as they were.
C18_UnreadableSourceChangesNothing ==
    [][(pc = "idle" /\ caller = "dag" /\ outcome' = "failed")
       => /\ pc' = "idle"
          /\ sentiment_batch_number' = sentiment_batch_number
          /\ db' = db
          /\ xcom' = xcom
          /\ hist' = hist
          /\ committed' = committed]_vars

\* The extraction raised in a run that found the cursor past batch 1 and
\* rows in the store; cursor and tables are those the run found.
C18_Witness ==
    /\ caller = "dag"
    /\ pc = "idle"
    /\ outcome = "failed"
    /\ sentiment_batch_number > 1
    /\ sentiment_batch_number = pre.batch_number
    /\ product # EmptyTable
    /\ product = pre.product

\* A pass of the send loop in which the transport did not confirm.
FailedDelivery ==
    /\ pc = "send"
    /\ alerts_to_send # <<>>
    /\ alerts_to_send' # alerts_to_send
    /\ sent_ids' = sent_ids

\* C19: a delivery failure for one selected notification is per item: the
\* run goes on, the failed row stays pending, and the other selected
\* notifications of the run are still handed to the transport.
C19_DeliveryFailureIsPerItem ==
    [][FailedDelivery
       => /\ pc' = "send"
          /\ notification' = notification
          /\ alerts_to_send' = Tail(alerts_to_send)]_vars

\* The row of e is pending and meets the threshold stored in it.
PendingMeets(e) ==
    /\ e \in DOMAIN notification
    /\ notification[e].send_status = "no"
    /\ notification[e].num_negative >= notification[e].threshold

\* The transport has confirmed the delivery for e in the run under way.
Delivered(e) == \E i \in 1..Len(sent_ids) : sent_ids[i] = e

IsSent(e) == e \in DOMAIN notification /\ notification[e].send_status = "yes"

UpdateRefused ==
    /\ pc = "send"
    /\ pc' = "idle"
    /\ sent_ids # <<>>
    /\ notification' = notification

\* C21: every fatal error is raised and fails the run, the failure of the
\* write that marks the confirmed notifications as sent included: a call of
\* the notifier whose UPDATE fails does not return normally.
C21_FatalErrorsAreRaised ==
    [][UpdateRefused => outcome' = "failed"]_vars

\* A step of check_and_send_alerts: its call, a pass of the send loop, the
\* status update, its return.
NotifierStep ==
    \/ pc = "send"
    \/ pc' = "send"
    \/ pc = "idle" /\ pc' = "idle" /\ outcome' = "alert_returned"

\* The row with send_status left out.
OtherFields(row) ==
    [message |-> row.message, num_negative |-> row.num_negative, threshold |-> row.threshold]

\* C22: a run of check_and_send_alerts leaves product, reviews and the
\* cursor unchanged, adds and removes no notification row, and changes no
\* field of a notification row other than send_status.
C22_NotifierChangesOnlySendStatus ==
    [][NotifierStep =>
          /\ product' = product
          /\ reviews' = reviews
          /\ sentiment_batch_number' = sentiment_batch_number
          /\ DOMAIN notification' = DOMAIN notification
          /\ \A e \in DOMAIN notification :
                OtherFields(notification'[e]) = OtherFields(notification[e])]_vars

\* A call of the notifier has marked both rows sent; the store holds the
\* rows of two entities.
C22_Witness ==
    /\ pc = "idle"
    /\ outcome = "alert_returned"
    /\ confirmed = Entities
    /\ DOMAIN product = Entities
    /\ reviews # EmptyTable
    /\ \A e \in Entities : e \in DOMAIN notification /\ notification[e].send_status = "yes"

\* The run under way (or just ended) extracted records of which none is
\* left after the cleaning of text and numbers.
ZeroValid ==
    /\ caller = "dag"
    /\ xcom.dataframe # <<>>
    /\ Pipeline(xcom.dataframe) = <<>>

\* C23: a batch that has records but no valid row after cleaning is not
\* taken for the end of the source: the run reports no EOF, leaves the
\* cursor past the batch instead of resetting it, and opens no transaction
\* and changes no table; EOF is reported only by a run whose read at the
\* stored position returned no record.
C23_EmptyAfterCleaningIsNotEof ==
    /\ [](ZeroValid =>
             /\ xcom.status # "EOF"
             /\ sentiment_batch_number = xcom.batch_number + 1
             /\ ~TxOpen
             /\ xcom.batch_number \notin committed)
    /\ [][ZeroValid => db' = db]_vars
    /\ [](xcom.status = "EOF" =>
             /\ hist # <<>>
             /\ hist[Len(hist)].eof
             /\ remaining(hist[Len(hist)].batch_number) = 0)

\* A run whose batch lost every row in the text cleaning has ended in
\* success with the cursor past that batch.
C23_Witness ==
    /\ ZeroValid
    /\ preprocess_text_batch(xcom.dataframe) = <<>>
    /\ pc = "idle"
    /\ outcome = "success"
    /\ sentiment_batch_number = xcom.batch_number + 1
    /\ remaining(xcom.batch_number) > 0

\* C24: when a commit refreshes a notification row between the selection
\* read and the status update of the notifier, the status update leaves the
\* refreshed row pending: a row it turns from pending to sent holds the
\* count that was delivered for it in this run.
C24_AckMarksOnlyDeliveredCount ==
    [][(pc = "send" /\ pc' = "idle")
       => \A e \in DOMAIN notification :
             (notification[e].send_status = "no" /\ notification'[e].send_status = "yes")
             => \E a \in attempted :
                   /\ a.district_id = e
                   /\ a.num_neg_reviews = notification'[e].num_negative]_vars

\* The records of entity e in the source that survive the cleaning.
ValidInSource(e) == Len(GroupOf(Pipeline(reviews_data), e))

\* C25: over any sequence of runs, the resets of the cursor at the end of
\* the source included, no source record is merged more than once: the
\* rows merged for an entity, and its total_reviews, never exceed the
\* number of its valid records in the source.
C25_NoRecordMergedTwice ==
    \A e \in DOMAIN product :
        /\ merged[e].n <= ValidInSource(e)
        /\ product[e].total_reviews <= ValidInSource(e)

\* Extraction i is the first of a pass.
PassStart(i) == i = 1 \/ hist[i - 1].eof

\* C26: within one pass, with the source and batch_size unchanged, the
\* batches of successive extractions partition the data rows in order: the
\* first batch starts at data row 1 (not at the header), each batch starts
\* at the row after the last row of the batch before it, each batch is the
\* rows first..last of the source, and the end of the source is reported
\* only when the batch before ended at the last data row.
C26_BatchesPartitionTheRows ==
    /\ [](\A i \in 1..Len(hist) :
             /\ PassStart(i) => hist[i].first = 1 /\ ~hist[i].eof
             /\ (~PassStart(i) /\ ~hist[i].eof) => hist[i].first = hist[i - 1].last + 1
             /\ ~hist[i].eof =>
                   /\ hist[i].first <= hist[i].last
                   /\ hist[i].last <= Len(reviews_data)
                   /\ hist[i].last - hist[i].first + 1 <= batch_size
             /\ hist[i].eof => hist[i - 1].last = Len(reviews_data))
    /\ [][hist' # hist =>
             xcom'.dataframe = Slice(reviews_data, hist'[Len(hist')].first,
                                     hist'[Len(hist')].last)]_vars

\* A whole pass: the first batch from row 1, the second up to the last row
\* of the source, then the end of the source, and the run ended in success.
C26_Witness ==
    /\ pc = "idle"
    /\ outcome = "success"
    /\ Len(hist) >= 3
    /\ hist[1].first = 1
    /\ hist[2].first = hist[1].last + 1
    /\ hist[2].last = Len(reviews_data)
    /\ hist[3].eof

RECURSIVE SumRows(_, _)
SumRows(table, keys) ==
    IF keys = {} THEN 0
    ELSE LET k == CHOOSE x \in keys : TRUE
         IN  table[k] + SumRows(table, keys \ {k})

\* SELECT COUNT(*) FROM reviews WHERE prod_id = e
AuditRows(e) == SumRows(reviews, {k \in DOMAIN reviews : k[1] = e})

\* SELECT total_reviews FROM product WHERE product_id = e; no row counts 0.
TotalReviews(e) == IF e \in DOMAIN product THEN product[e].total_reviews ELSE 0

\* C27: in the committed tables, for each entity the number of audit rows
\* stored for the entity equals the total_reviews of its stats row.
C27_AuditRowsEqualTotalReviews ==
    \A e \in Entities : AuditRows(e) = TotalReviews(e)

====
